---- MODULE Spec2Model ----
(***************************************************************************)
(* Model of src/src/HTTPSClient.hpp: the staged HTTPS request pipeline     *)
(* HTTPSClient::sendRequest (connectivity, clock synchronisation, secure   *)
(* exchange) and the length-bounded response reader BodyStream.            *)
(*                                                                         *)
(* Execution is single threaded and cooperative: every handler below runs  *)
(* to completion, except that the user's onResponse continuation runs in   *)
(* the middle of the exchange handler.  The time the continuation is       *)
(* executing is the control state "inCallback"; the reader operations of   *)
(* BodyStream are the steps the continuation can take there.               *)
(***************************************************************************)
EXTENDS Integers, Sequences, FiniteSets, TLC

\* ------------------------------------------------------------------ bounds
MaxSize == 1        \* largest declared content length (HTTPClient::getSize)
MaxExtra == 1       \* bytes buffered on the connection beyond the body
MaxLength == 1      \* largest length argument of readBytes
MaxOps == 2         \* reader operations performed by one continuation
MaxPolls == 2       \* poll ticks observed by one clock synchronisation
BigSize == 10       \* largest declared content length of a lone reader
BigLength == 4      \* largest length argument of readBytes on a lone reader
BigOps == 5         \* operations performed on a lone reader

\* --------------------------------------------------------------- constants
Inv == {1, 2}                       \* sendRequest invocations in flight
NULL == "nullptr"
ClockThreshold == 8 * 3600 * 2      \* the literal of the poll predicate

WL_CONNECTED == "WL_CONNECTED"
Statuses == {"WL_CONNECTED", "WL_CONNECT_FAILED", "WL_DISCONNECTED"}

Methods == {"HTTP_GET", "HTTP_HEAD", "HTTP_POST", "HTTP_PUT", "HTTP_PATCH",
            "HTTP_DELETE", "HTTP_OPTIONS"}
\* a value of the enum type that is none of its enumerators
OtherMethod == "HTTP_UNDEFINED"

HeaderSets == {<<>>, <<"Accept", "Host", "Host">>}
Requests == [method : {"HTTP_GET", "HTTP_POST", OtherMethod},
             headers : HeaderSets]
NoRequest == [method |-> "none", headers |-> <<>>]

\* result codes of HTTPClient::sendRequest and sizes of HTTPClient::getSize
Codes == {-2, -1, 0, 200, 404}
Sizes == -1 .. MaxSize
Times == {0, ClockThreshold - 1, ClockThreshold, 600000}

ErrWifi == "could not connect to WiFi"
ErrClock == "could not synchronize the time"
ErrBegin == "unable to connect"

VARIABLES
  pc,          \* control state of each invocation
  request,     \* the Request captured by the closures of each invocation
  wifiStatus,  \* the status connect called back with
  now,         \* the system clock, time(nullptr)
  observed,    \* the clock values seen by the poll predicate, in order
  clockSet,    \* the arguments onClockSet was called with, in order
  polling,     \* the registration made by setOnLoopUntil is still in the loop
  httpCode,    \* what http.sendRequest returned
  engineUsers, \* for each engine instance, the invocations that called on it
  log,         \* calls made to the collaborators and to onResponse, in order
  resp,        \* the Response handed to onResponse
  branch,      \* the set of branches of sendRequest that called onResponse
  respCount,   \* number of calls of onResponse
  session,     \* HTTPClient / WiFiClientSecure locals of the exchange stage
  reader,      \* lifetime of the BodyStream local
  declared,    \* what HTTPClient::getSize answered
  bytesLeft,   \* BodyStream::bytesLeft
  buffered,    \* bytes the connection can still deliver
  connected,   \* HTTPClient::connected()
  lastOp,      \* the last reader operation, what it asked and returned
  sumRead,     \* total of the counts returned by readBytes
  nOps,        \* reader operations performed
  retained,    \* the continuation kept the Response's body pointer
  staleUse     \* outcome of the last use of a retained pointer

vars == <<pc, request, wifiStatus, now, observed, clockSet, polling, httpCode,
          engineUsers, log, resp, branch, respCount, session, reader,
          declared, bytesLeft, buffered, connected, lastOp, sumRead, nOps,
          retained, staleUse>>

readerVars == <<declared, bytesLeft, buffered, connected, lastOp, sumRead,
                nOps>>

\* ------------------------------------------------------------ pure helpers
Min(a, b) == IF a <= b THEN a ELSE b

\* the cast (size_t)n of a 32-bit int to the 32-bit unsigned size_t, that is
\* n % 2^32, kept as its top bit hi and its low 31 bits lo
ToSizeT(n) ==
  IF n < 0 THEN [hi |-> 1, lo |-> (n + 2147483647) + 1]
           ELSE [hi |-> 0, lo |-> n]

\* std::min on two size_t values
MinSizeT(a, b) ==
  IF b.hi < a.hi \/ (b.hi = a.hi /\ b.lo < a.lo) THEN b ELSE a

\* as readMethod, with the case HTTP_HEAD missing
readMethodNoHead(method) ==
  CASE method = "HTTP_OPTIONS" -> "OPTIONS"
    [] method = "HTTP_DELETE" -> "DELETE"
    [] method = "HTTP_PATCH" -> "PATCH"
    [] method = "HTTP_PUT" -> "PUT"
    [] method = "HTTP_POST" -> "POST"
    [] OTHER -> "GET"

\* HTTPSClient::readMethod
readMethod(method) ==
  CASE method = "HTTP_OPTIONS" -> "OPTIONS"
    [] method = "HTTP_DELETE" -> "DELETE"
    [] method = "HTTP_PATCH" -> "PATCH"
    [] method = "HTTP_PUT" -> "PUT"
    [] method = "HTTP_POST" -> "POST"
    [] method = "HTTP_HEAD" -> "HEAD"
    [] OTHER -> "GET"

\* http.errorToString(httpCode).c_str(): a non-null text for every code
errorToString(code) ==
  CASE code = -1 -> "connection failed"
    [] code = -2 -> "send header failed"
    [] OTHER -> ""

Response(error, statusCode, body) ==
  [error |-> error, statusCode |-> statusCode, body |-> body]
\* Response::body: a null pointer, or the address of invocation i's BodyStream
NoBody == {}
BodyOf(i) == {i}
NoResponse == Response(NULL, 0, NoBody)

Ev(op, arg) == [op |-> op, arg |-> arg]
\* a reader operation: its length argument, the length it asked of the
\* connection (-1: connection not touched), its result, and bytesLeft and
\* connected() as they were when it was called
Op(op, len, asked, ret, before, conn) ==
  [op |-> op, len |-> len, asked |-> asked, ret |-> ret, before |-> before,
   conn |-> conn]
NoOp == Op("none", 0, -1, 0, 0, FALSE)

\* as addHeaders, going through request.headers from the back
RECURSIVE addHeadersReversed(_)
addHeadersReversed(hs) ==
  IF hs = <<>> THEN <<>>
  ELSE addHeadersReversed(Tail(hs)) \o <<Ev("addHeader", Head(hs))>>

\* the for loop over request.headers calling http.addHeader
RECURSIVE addHeaders(_)
addHeaders(hs) ==
  IF hs = <<>> THEN <<>>
  ELSE <<Ev("addHeader", Head(hs))>> \o addHeaders(Tail(hs))

\* the thread is inside some onResponse continuation
Running == \E j \in Inv : pc[j] = "inCallback"

\* ---------------------------------------------------------- initial state
Init ==
  /\ pc = [i \in Inv |-> "idle"]
  /\ request = [i \in Inv |-> NoRequest]
  /\ wifiStatus = [i \in Inv |-> "none"]
  /\ now = 0
  /\ observed = [i \in Inv |-> <<>>]
  /\ clockSet = [i \in Inv |-> <<>>]
  /\ polling = [i \in Inv |-> FALSE]
  /\ httpCode = [i \in Inv |-> 0]
  /\ engineUsers = [e \in Inv |-> {}]
  /\ log = [i \in Inv |-> <<>>]
  /\ resp = [i \in Inv |-> NoResponse]
  /\ branch = [i \in Inv |-> {}]
  /\ respCount = [i \in Inv |-> 0]
  /\ session = [i \in Inv |-> "none"]
  /\ reader = [i \in Inv |-> "none"]
  /\ declared = [i \in Inv |-> 0]
  /\ bytesLeft = [i \in Inv |-> 0]
  /\ buffered = [i \in Inv |-> 0]
  /\ connected = [i \in Inv |-> FALSE]
  /\ lastOp = [i \in Inv |-> NoOp]
  /\ sumRead = [i \in Inv |-> 0]
  /\ nOps = [i \in Inv |-> 0]
  /\ retained = [i \in Inv |-> FALSE]
  /\ staleUse = [i \in Inv |-> "none"]

\* ------------------------------------------------- the request pipeline

\* onResponse(r) called from branch br after the handler logged evs
Deliver(i, evs, r, br) ==
  /\ log' = [log EXCEPT ![i] = @ \o evs \o <<Ev("onResponse", br)>>]
  /\ resp' = [resp EXCEPT ![i] = r]
  /\ respCount' = [respCount EXCEPT ![i] = @ + 1]
  /\ branch' = [branch EXCEPT ![i] = @ \cup {br}]
  /\ pc' = [pc EXCEPT ![i] = "inCallback"]

\* setClock: configTime, then setOnLoopUntil(predicate, onTimeout, timeoutMs)
setClock ==
  <<Ev("configTime", ""), Ev("setOnLoopUntil", "")>>

\* as sendRequestCalls, with setClock called next to connect instead of
\* from within its closure
sendRequestCallsEager == <<Ev("connect", "")>> \o setClock

\* the calls sendRequest itself makes before it returns
sendRequestCalls == <<Ev("connect", "")>>

\* sendRequest: captures request and onResponse, registers with connect
SendRequest(i, req) ==
  /\ pc[i] = "idle"
  /\ request' = [request EXCEPT ![i] = req]
  /\ log' = [log EXCEPT ![i] = @ \o sendRequestCalls]
  /\ pc' = [pc EXCEPT ![i] = "awaitConnect"]
  /\ UNCHANGED <<wifiStatus, now, observed, clockSet, polling, httpCode,
                 engineUsers, resp, branch, respCount, session, reader,
                 readerVars, retained, staleUse>>

\* as notConnected, testing for one failure status only
notConnectedFailedOnly(status) == status = "WL_CONNECT_FAILED"

\* the test status != WL_CONNECTED of the connect closure
notConnected(status) == status # WL_CONNECTED

\* the closure handed to connect, called back with the connection status
ConnectCallback(i, status) ==
  /\ pc[i] = "awaitConnect"
  /\ ~Running
  /\ wifiStatus' = [wifiStatus EXCEPT ![i] = status]
  /\ IF notConnected(status)
       THEN /\ Deliver(i, <<>>, Response(ErrWifi, -1, NoBody), "wifi")
            /\ UNCHANGED polling
       ELSE /\ log' = [log EXCEPT ![i] = @ \o setClock]
            /\ polling' = [polling EXCEPT ![i] = TRUE]
            /\ pc' = [pc EXCEPT ![i] = "awaitClock"]
            /\ UNCHANGED <<resp, branch, respCount>>
  /\ UNCHANGED <<request, now, observed, clockSet, httpCode, engineUsers,
                 session, reader, readerVars, retained, staleUse>>

\* the calls on the engine between a successful begin and the result code
exchangeCalls(req) ==
  <<Ev("begin", "")>> \o addHeaders(req.headers)
    \o <<Ev("sendRequest", readMethod(req.method))>>

\* as exchangeResponse, with the test httpCode >= 0
exchangeResponseFromZero(i, code) ==
  IF code >= 0
    THEN Response(NULL, code, BodyOf(i))
    ELSE Response(errorToString(code), code, NoBody)

\* as exchangeResponse, with the fixed -1 of the other error branches
exchangeResponseFixedCode(i, code) ==
  IF code > 0
    THEN Response(NULL, code, BodyOf(i))
    ELSE Response(errorToString(code), -1, NoBody)

\* the Response built from the result code of http.sendRequest
exchangeResponse(i, code) ==
  IF code > 0
    THEN Response(NULL, code, BodyOf(i))
    ELSE Response(errorToString(code), code, NoBody)

\* as BodyStreamInit, with a reader that starts empty
BodyStreamInitZero(size) == 0

\* as BodyStreamInit, with an unknown size taken as 0
BodyStreamInitClamped(size) == IF size < 0 THEN 0 ELSE size

\* BodyStream::BodyStream: bytesLeft = httpClient->getSize()
BodyStreamInit(size) == size

\* as engineOf, with one engine kept in the HTTPSClient object
engineOfShared(i) == 1

\* the engine instance an exchange uses: client and http are locals of the
\* activation of the continuation, one pair for each invocation
engineOf(i) == i

\* as clockFailed, with the test left out
clockFailedNever(success) == FALSE

\* the test !success of the continuation handed to setClock
clockFailed(success) == ~success

\* the continuation handed to setClock, up to its call of onResponse;
\* opened, httpCode, size, buf and conn are what the engine answers
onClockSet(i, success, opened, code, size, buf, conn) ==
  /\ clockSet' = [clockSet EXCEPT ![i] = Append(@, success)]
  /\ IF clockFailed(success)
       THEN /\ Deliver(i, <<>>, Response(ErrClock, -1, NoBody), "clock")
            /\ UNCHANGED <<httpCode, engineUsers, session, reader, readerVars>>
     ELSE IF ~opened
       THEN /\ Deliver(i, <<Ev("begin", "")>>,
                       Response(ErrBegin, -1, NoBody), "begin")
            /\ engineUsers' = [engineUsers EXCEPT ![engineOf(i)] = @ \cup {i}]
            /\ session' = [session EXCEPT ![i] = "unopened"]
            /\ UNCHANGED <<httpCode, reader, readerVars>>
     ELSE IF code > 0
       THEN /\ Deliver(i, exchangeCalls(request[i]) \o <<Ev("getSize", "")>>,
                       exchangeResponse(i, code), "body")
            /\ engineUsers' = [engineUsers EXCEPT ![engineOf(i)] = @ \cup {i}]
            /\ httpCode' = [httpCode EXCEPT ![i] = code]
            /\ session' = [session EXCEPT ![i] = "begun"]
            /\ reader' = [reader EXCEPT ![i] = "live"]
            /\ declared' = [declared EXCEPT ![i] = size]
            /\ bytesLeft' = [bytesLeft EXCEPT ![i] = BodyStreamInit(size)]
            /\ buffered' = [buffered EXCEPT ![i] = buf]
            /\ connected' = [connected EXCEPT ![i] = conn]
            /\ UNCHANGED <<lastOp, sumRead, nOps>>
       ELSE /\ Deliver(i, exchangeCalls(request[i]),
                       exchangeResponse(i, code), "code")
            /\ engineUsers' = [engineUsers EXCEPT ![engineOf(i)] = @ \cup {i}]
            /\ httpCode' = [httpCode EXCEPT ![i] = code]
            /\ session' = [session EXCEPT ![i] = "begun"]
            /\ UNCHANGED <<reader, readerVars>>

\* what the engine can answer to begin, sendRequest, getSize, connected
Answers(i, success) ==
  \E opened \in BOOLEAN, code \in Codes :
    \E size \in (IF opened /\ code > 0 THEN Sizes ELSE {0}) :
      \E buf \in (IF opened /\ code > 0
                    THEN 0 .. ((IF size < 0 THEN 0 ELSE size) + MaxExtra)
                    ELSE {0}) :
        \E conn \in (IF opened /\ code > 0 THEN BOOLEAN ELSE {FALSE}) :
          /\ opened \/ code = 0
          /\ onClockSet(i, success, opened, code, size, buf, conn)

\* as clockReached, with > in place of >=
clockReachedStrict(t) == t > ClockThreshold

\* the test now >= 8 * 3600 * 2 of the poll predicate
clockReached(t) == t >= ClockThreshold

\* as predicateReturn, with the return true after onClockSet(true) missing
predicateReturnFalse(reached) == FALSE

\* what the poll predicate returns: true after it called onClockSet(true),
\* which takes the registration out of the loop, false otherwise
predicateReturn(reached) == reached

\* the poll predicate of setClock, evaluated on a tick of the loop
PollTick(i) ==
  /\ polling[i]
  /\ ~Running
  /\ Len(observed[i]) < MaxPolls
  /\ observed' = [observed EXCEPT ![i] = Append(@, now)]
  /\ polling' = [polling EXCEPT ![i] = ~predicateReturn(clockReached(now))]
  /\ IF clockReached(now)
       THEN Answers(i, TRUE)
       ELSE UNCHANGED <<pc, clockSet, httpCode, engineUsers, log, resp, branch,
                        respCount, session, reader, readerVars>>
  /\ UNCHANGED <<request, wifiStatus, now, retained, staleUse>>

\* as onTimeout, with a closure that does nothing
onTimeoutNothing(i) ==
  UNCHANGED <<pc, clockSet, httpCode, engineUsers, log, resp, branch,
              respCount, session, reader, readerVars>>

\* the onTimeout closure of setClock: onClockSet(false)
onTimeout(i) == onClockSet(i, FALSE, FALSE, 0, 0, 0, FALSE)

\* the deadline of setOnLoopUntil elapses before the predicate returned true
PollTimeout(i) ==
  /\ polling[i]
  /\ ~Running
  /\ polling' = [polling EXCEPT ![i] = FALSE]
  /\ onTimeout(i)
  /\ UNCHANGED <<request, wifiStatus, now, observed, retained, staleUse>>

\* the time synchronisation requested by configTime sets the system clock
ClockAdvance(t) ==
  /\ t > now
  /\ \E i \in Inv : \E k \in 1 .. Len(log[i]) : log[i][k].op = "configTime"
  /\ now' = t
  /\ UNCHANGED <<pc, request, wifiStatus, observed, clockSet, polling,
                 httpCode, engineUsers, log, resp, branch, respCount, session,
                 reader, readerVars, retained, staleUse>>

\* as teardown, with locals that are released by http.end() only
teardownBegunOnly(s) ==
  CASE s = "begun" -> <<Ev("end", ""), Ev("destroy", "")>>
    [] OTHER -> <<>>

\* what the exchange handler does after onResponse returned: http.end() on
\* the branch where begin succeeded, then the locals go out of scope
teardown(s) ==
  CASE s = "begun" -> <<Ev("end", ""), Ev("destroy", "")>>
    [] s = "unopened" -> <<Ev("destroy", "")>>
    [] OTHER -> <<>>

\* as afterReturn, with the return after the WiFi failure response missing
afterReturnFallsThrough(br) == IF br = "wifi" THEN "awaitClock" ELSE "done"

\* where the handler that called onResponse from branch br goes on when
\* onResponse returns: every branch returns or runs off the handler's end
afterReturn(br) == "done"

\* onResponse returns and the handler that called it runs to its end
CallbackReturn(i) ==
  /\ pc[i] = "inCallback"
  /\ log' = [log EXCEPT ![i] = @ \o <<Ev("return", "")>> \o teardown(session[i])]
  /\ session' = [session EXCEPT
                   ![i] = IF teardown(@) = <<>> THEN @ ELSE "destroyed"]
  /\ reader' = [reader EXCEPT
                  ![i] = IF @ = "live" THEN "destroyed" ELSE @]
  /\ declared' = [declared EXCEPT ![i] = 0]
  /\ bytesLeft' = [bytesLeft EXCEPT ![i] = 0]
  /\ buffered' = [buffered EXCEPT ![i] = 0]
  /\ connected' = [connected EXCEPT ![i] = FALSE]
  /\ lastOp' = [lastOp EXCEPT ![i] = NoOp]
  /\ sumRead' = [sumRead EXCEPT ![i] = 0]
  /\ nOps' = [nOps EXCEPT ![i] = 0]
  /\ pc' = [pc EXCEPT ![i] = afterReturn(log[i][Len(log[i])].arg)]
  /\ UNCHANGED <<request, wifiStatus, now, observed, clockSet, polling,
                 httpCode, engineUsers, resp, branch, respCount, retained,
                 staleUse>>

\* ------------------------------------------------------------- BodyStream

\* as available, without the test of connected()
availableUnconditional(conn, left) == left

\* BodyStream::available
available(conn, left) == IF ~conn THEN 0 ELSE left

\* as readBytesAsk, without the bound by bytesLeft
readBytesAskUnbounded(left, length) == length

\* the length BodyStream::readBytes passes to wifiClient->readBytes
readBytesAsk(left, length) == MinSizeT(ToSizeT(left), ToSizeT(length)).lo

\* as readBytesLeft, without the test bytesLeft > 0
readBytesLeftUnguarded(left, bytesRead) == left - bytesRead

\* BodyStream::readBytes: the update of bytesLeft after bytesRead bytes
readBytesLeft(left, bytesRead) ==
  IF left > 0 THEN left - bytesRead ELSE left

\* BodyStream::readBytes; bytesRead is what wifiClient->readBytes returns
readBytes(i, length, bytesRead) ==
  IF bytesLeft[i] = 0
    THEN /\ lastOp' = [lastOp EXCEPT ![i] =
                Op("readBytes", length, -1, 0, bytesLeft[i], connected[i])]
         /\ bytesRead = 0
         /\ UNCHANGED <<declared, bytesLeft, buffered, sumRead>>
    ELSE /\ bytesRead <= Min(readBytesAsk(bytesLeft[i], length), buffered[i])
         /\ lastOp' = [lastOp EXCEPT ![i] =
                Op("readBytes", length, readBytesAsk(bytesLeft[i], length),
                   bytesRead, bytesLeft[i], connected[i])]
         /\ bytesLeft' = [bytesLeft EXCEPT ![i] = readBytesLeft(@, bytesRead)]
         /\ buffered' = [buffered EXCEPT ![i] = @ - bytesRead]
         /\ sumRead' = [sumRead EXCEPT ![i] = @ + bytesRead]
         /\ UNCHANGED declared

\* the continuation holds a live reader and may perform one more operation
CanUse(i, maxOps) ==
  /\ pc[i] = "inCallback"
  /\ resp[i].body = BodyOf(i)
  /\ reader[i] = "live"
  /\ nOps[i] < maxOps

pipelineVars == <<pc, request, wifiStatus, now, observed, clockSet, polling,
                  httpCode, engineUsers, log, resp, branch, respCount,
                  session, reader, retained, staleUse>>

ReadBytes(i, maxLength, maxOps) ==
  /\ CanUse(i, maxOps)
  /\ \E length \in 0 .. maxLength : \E bytesRead \in 0 .. maxLength :
       readBytes(i, length, bytesRead)
  /\ nOps' = [nOps EXCEPT ![i] = @ + 1]
  /\ UNCHANGED <<connected, pipelineVars>>

Available(i, maxOps) ==
  /\ CanUse(i, maxOps)
  /\ lastOp' = [lastOp EXCEPT ![i] =
         Op("available", 0, -1, available(connected[i], bytesLeft[i]),
            bytesLeft[i], connected[i])]
  /\ nOps' = [nOps EXCEPT ![i] = @ + 1]
  /\ UNCHANGED <<declared, bytesLeft, buffered, connected, sumRead,
                 pipelineVars>>

\* as readLeft, with the byte counted against bytesLeft
readLeftCounting(left) == IF left > 0 THEN left - 1 ELSE left

\* bytesLeft after BodyStream::read, which does not mention it
readLeft(left) == left

\* BodyStream::read: wifiClient->read() takes one buffered byte, or gives -1
Read(i, maxOps) ==
  /\ CanUse(i, maxOps)
  /\ lastOp' = [lastOp EXCEPT ![i] =
         Op("read", 1, 1, IF buffered[i] > 0 THEN 1 ELSE -1, bytesLeft[i],
            connected[i])]
  /\ buffered' = [buffered EXCEPT ![i] = IF @ > 0 THEN @ - 1 ELSE @]
  /\ nOps' = [nOps EXCEPT ![i] = @ + 1]
  /\ bytesLeft' = [bytesLeft EXCEPT ![i] = readLeft(@)]
  /\ UNCHANGED <<declared, connected, sumRead, pipelineVars>>

\* BodyStream::peek: wifiClient->peek() shows one buffered byte, or gives -1
Peek(i, maxOps) ==
  /\ CanUse(i, maxOps)
  /\ lastOp' = [lastOp EXCEPT ![i] =
         Op("peek", 1, 1, IF buffered[i] > 0 THEN 1 ELSE -1, bytesLeft[i],
            connected[i])]
  /\ nOps' = [nOps EXCEPT ![i] = @ + 1]
  /\ UNCHANGED <<declared, bytesLeft, buffered, connected, sumRead,
                 pipelineVars>>

\* the peer closes the connection while the continuation runs
Disconnect(i) ==
  /\ pc[i] = "inCallback"
  /\ reader[i] = "live"
  /\ connected[i]
  /\ connected' = [connected EXCEPT ![i] = FALSE]
  /\ UNCHANGED <<declared, bytesLeft, buffered, lastOp, sumRead, nOps,
                 pipelineVars>>

\* the continuation stores the Response's body pointer for later
Retain(i) ==
  /\ pc[i] = "inCallback"
  /\ resp[i].body = BodyOf(i)
  /\ ~retained[i]
  /\ retained' = [retained EXCEPT ![i] = TRUE]
  /\ UNCHANGED <<pc, request, wifiStatus, now, observed, clockSet, polling,
                 httpCode, engineUsers, log, resp, branch, respCount, session,
                 reader, readerVars, staleUse>>

\* an operation through a pointer to the destroyed BodyStream: undefined
\* behaviour, which either reads the dead stack frame or faults
StaleOutcomes == {"silent", "fault"}

UseRetained(i) ==
  /\ pc[i] = "done"
  /\ retained[i]
  /\ reader[i] = "destroyed"
  /\ staleUse[i] = "none"
  /\ \E o \in StaleOutcomes : staleUse' = [staleUse EXCEPT ![i] = o]
  /\ UNCHANGED <<pc, request, wifiStatus, now, observed, clockSet, polling,
                 httpCode, engineUsers, log, resp, branch, respCount, session,
                 reader, readerVars, retained>>

\* ---------------------------------------------------------- specification
\* one sendRequest invocation, every input
Single == {1}

Next ==
  \/ \E i \in Single : \E req \in Requests : SendRequest(i, req)
  \/ \E i \in Single : \E status \in Statuses : ConnectCallback(i, status)
  \/ \E i \in Single : PollTick(i)
  \/ \E i \in Single : PollTimeout(i)
  \/ \E t \in Times : ClockAdvance(t)
  \/ \E i \in Single : CallbackReturn(i)
  \/ \E i \in Single : ReadBytes(i, MaxLength, MaxOps)
  \/ \E i \in Single : Available(i, MaxOps)
  \/ \E i \in Single : Read(i, MaxOps)
  \/ \E i \in Single : Peek(i, MaxOps)
  \/ \E i \in Single : Disconnect(i)
  \/ \E i \in Single : Retain(i)
  \/ \E i \in Single : UseRetained(i)

Spec == Init /\ [][Next]_vars

\* A lone reader: the continuation of invocation 1 has just been handed the
\* body of a successful exchange, with any declared length up to BigSize
PingRequest == [method |-> "HTTP_GET", headers |-> <<"Accept">>]

InitReader ==
  /\ pc = [i \in Inv |-> IF i = 1 THEN "inCallback" ELSE "idle"]
  /\ request = [i \in Inv |-> IF i = 1 THEN PingRequest ELSE NoRequest]
  /\ wifiStatus = [i \in Inv |-> IF i = 1 THEN WL_CONNECTED ELSE "none"]
  /\ now = ClockThreshold
  /\ observed = [i \in Inv |-> IF i = 1 THEN <<ClockThreshold>> ELSE <<>>]
  /\ clockSet = [i \in Inv |-> IF i = 1 THEN <<TRUE>> ELSE <<>>]
  /\ polling = [i \in Inv |-> FALSE]
  /\ httpCode = [i \in Inv |-> IF i = 1 THEN 200 ELSE 0]
  /\ engineUsers = [e \in Inv |-> IF e = 1 THEN {1} ELSE {}]
  /\ log = [i \in Inv |->
              IF i = 1
                THEN sendRequestCalls \o setClock \o exchangeCalls(PingRequest)
                       \o <<Ev("getSize", ""), Ev("onResponse", "body")>>
                ELSE <<>>]
  /\ resp = [i \in Inv |->
               IF i = 1 THEN exchangeResponse(1, 200) ELSE NoResponse]
  /\ branch = [i \in Inv |-> IF i = 1 THEN {"body"} ELSE {}]
  /\ respCount = [i \in Inv |-> IF i = 1 THEN 1 ELSE 0]
  /\ session = [i \in Inv |-> IF i = 1 THEN "begun" ELSE "none"]
  /\ reader = [i \in Inv |-> IF i = 1 THEN "live" ELSE "none"]
  /\ \E size \in -1 .. BigSize : \E extra \in 0 .. MaxExtra :
       /\ declared = [i \in Inv |-> IF i = 1 THEN size ELSE 0]
       /\ bytesLeft = [i \in Inv |-> IF i = 1 THEN BodyStreamInit(size) ELSE 0]
       /\ buffered = [i \in Inv |->
                        IF i = 1 THEN (IF size < 0 THEN 0 ELSE size) + extra
                                 ELSE 0]
  /\ connected \in [Inv -> BOOLEAN]
  /\ connected[2] = FALSE
  /\ lastOp = [i \in Inv |-> NoOp]
  /\ sumRead = [i \in Inv |-> 0]
  /\ nOps = [i \in Inv |-> 0]
  /\ retained = [i \in Inv |-> FALSE]
  /\ staleUse = [i \in Inv |-> "none"]

NextReader ==
  \/ ReadBytes(1, BigLength, BigOps)
  \/ Available(1, BigOps)
  \/ Read(1, BigOps)
  \/ Peek(1, BigOps)
  \/ Disconnect(1)

SpecReader == InitReader /\ [][NextReader]_vars

\* The pipeline alone, for a request with any method: the continuation
\* returns without operating on the body
AllRequests == [method : Methods \cup {OtherMethod}, headers : HeaderSets]

NextPipeline ==
  \/ \E req \in AllRequests : SendRequest(1, req)
  \/ \E status \in Statuses : ConnectCallback(1, status)
  \/ PollTick(1)
  \/ PollTimeout(1)
  \/ \E t \in Times : ClockAdvance(t)
  \/ CallbackReturn(1)

SpecPipeline == Init /\ [][NextPipeline]_vars

\* connect calls back once, and the loop goes on ticking until the predicate
\* returns true or the deadline elapses
Fairness ==
  /\ WF_vars(\E status \in Statuses : ConnectCallback(1, status))
  /\ WF_vars(PollTick(1) \/ PollTimeout(1))

SpecLive == SpecPipeline /\ Fairness

\* Two invocations in flight at once, each with a request of its own
RequestOf(i) ==
  IF i = 1 THEN [method |-> "HTTP_GET", headers |-> <<>>]
           ELSE [method |-> "HTTP_POST", headers |-> <<"Accept", "Host", "Host">>]

NextConcurrent ==
  \/ \E i \in Inv : SendRequest(i, RequestOf(i))
  \/ \E i \in Inv : \E status \in Statuses : ConnectCallback(i, status)
  \/ \E i \in Inv : PollTick(i)
  \/ \E i \in Inv : PollTimeout(i)
  \/ \E t \in Times : ClockAdvance(t)
  \/ \E i \in Inv : CallbackReturn(i)

SpecConcurrent == Init /\ [][NextConcurrent]_vars

\* ------------------------------------------------------------- properties
Ops(i) == {log[i][k].op : k \in 1 .. Len(log[i])}
Count(i, op) == Cardinality({k \in 1 .. Len(log[i]) : log[i][k].op = op})
ClockOps == {"configTime", "setOnLoopUntil"}
EngineOps == {"begin", "addHeader", "sendRequest", "getSize", "end", "destroy"}
Stage(op) ==
  CASE op = "connect" -> 1
    [] op \in ClockOps -> 2
    [] op \in EngineOps -> 3
    [] OTHER -> 0

\* C1: an invocation calls onResponse at most once and from at most one
\* branch; it has called it exactly once when it is in or past the
\* continuation, and not at all while it waits for connect or for the clock.
ExactlyOneResponse ==
  \A i \in Inv :
    /\ respCount[i] <= 1
    /\ Cardinality(branch[i]) = respCount[i]
    /\ Count(i, "onResponse") = respCount[i]
    /\ (pc[i] \in {"inCallback", "done"}) => (respCount[i] = 1)
    /\ (pc[i] \in {"idle", "awaitConnect", "awaitClock"}) => (respCount[i] = 0)

ExactlyOneResponseWitness ==
  /\ pc[1] = "done"
  /\ respCount[1] = 1
  /\ branch[1] = {"body"}

\* C2 as stated: in a delivered Response the body is absent iff
\* statusCode < 0, present iff statusCode > 0, and error is present whenever
\* the body is absent.
BodyIffStrictSign ==
  \A i \in Inv :
    respCount[i] > 0 =>
      /\ (resp[i].body = NoBody) <=> (resp[i].statusCode < 0)
      /\ (resp[i].body # NoBody) <=> (resp[i].statusCode > 0)
      /\ (resp[i].body = NoBody) => (resp[i].error # NULL)

\* C2 amended: in a delivered Response the body is absent iff
\* statusCode <= 0, present iff statusCode > 0, and error is present
\* whenever the body is absent.
BodyIffPositive ==
  \A i \in Inv :
    respCount[i] > 0 =>
      /\ (resp[i].body = NoBody) <=> (resp[i].statusCode <= 0)
      /\ (resp[i].body # NoBody) <=> (resp[i].statusCode > 0)
      /\ (resp[i].body = NoBody) => (resp[i].error # NULL)

BodyIffPositiveWitness ==
  /\ respCount[1] = 1
  /\ branch[1] = {"code"}
  /\ resp[1].statusCode = 0
  /\ resp[1].body = NoBody
  /\ resp[1].error # NULL

\* C3: when connect reports a status other than connected, onResponse has
\* been called once with "could not connect to WiFi", -1 and no body, and the
\* invocation has made no call of the clock synchronisation or the engine.
WifiFailureStops ==
  \A i \in Inv :
    (wifiStatus[i] \notin {"none", WL_CONNECTED}) =>
      /\ respCount[i] = 1
      /\ branch[i] = {"wifi"}
      /\ resp[i] = Response(ErrWifi, -1, NoBody)
      /\ Ops(i) \cap (ClockOps \cup EngineOps) = {}

WifiFailureStopsWitness ==
  /\ wifiStatus[1] = "WL_DISCONNECTED"
  /\ pc[1] = "done"
  /\ respCount[1] = 1

\* C4: when connect reported connected and the poll timed out, onResponse
\* has been called once with "could not synchronize the time", -1 and no
\* body, and the invocation has made no call of the engine.
ClockTimeoutStops ==
  \A i \in Inv :
    (clockSet[i] # <<>> /\ ~clockSet[i][1]) =>
      /\ wifiStatus[i] = WL_CONNECTED
      /\ respCount[i] = 1
      /\ branch[i] = {"clock"}
      /\ resp[i] = Response(ErrClock, -1, NoBody)
      /\ Ops(i) \cap EngineOps = {}

ClockTimeoutStopsWitness ==
  /\ clockSet[1] = <<FALSE>>
  /\ Len(observed[1]) > 0
  /\ now < ClockThreshold
  /\ pc[1] = "done"
  /\ respCount[1] = 1

\* C5: the stages run in order: no call of the clock synchronisation before
\* connect has reported connected, no call of the engine before onClockSet
\* was called with true, and in the order of calls no call of an earlier
\* stage follows a call of a later one.
StagesSequential ==
  \A i \in Inv :
    /\ (pc[i] \in {"idle", "awaitConnect"}) =>
         (Ops(i) \cap (ClockOps \cup EngineOps) = {})
    /\ (pc[i] = "awaitClock") => (Ops(i) \cap EngineOps = {})
    /\ (Ops(i) \cap ClockOps # {}) => (wifiStatus[i] = WL_CONNECTED)
    /\ (Ops(i) \cap EngineOps # {}) =>
         /\ clockSet[i] = <<TRUE>>
         /\ ClockOps \subseteq Ops(i)
    /\ \A k, l \in 1 .. Len(log[i]) :
         (k < l /\ Stage(log[i][k].op) > 0 /\ Stage(log[i][l].op) > 0) =>
           (Stage(log[i][k].op) <= Stage(log[i][l].op))

StagesSequentialWitness ==
  /\ pc[1] = "done"
  /\ Ops(1) = {"connect", "configTime", "setOnLoopUntil", "begin",
               "addHeader", "sendRequest", "getSize", "onResponse", "return",
               "end", "destroy"}

\* C6: on a run that entered the exchange stage the session is live while
\* the continuation executes, and once the handler is done the session's
\* resources are released, every release coming after onResponse returned
\* (http.end() too, whenever begin had succeeded).
TeardownAfterReturn ==
  \A i \in Inv :
    ("begin" \in Ops(i)) =>
      /\ (pc[i] = "inCallback") =>
           /\ session[i] \in {"begun", "unopened"}
           /\ Ops(i) \cap {"end", "destroy"} = {}
      /\ (pc[i] = "done") =>
           /\ session[i] = "destroyed"
           /\ "destroy" \in Ops(i)
           /\ ("sendRequest" \in Ops(i)) => ("end" \in Ops(i))
           /\ \A k \in 1 .. Len(log[i]) :
                (log[i][k].op \in {"end", "destroy"}) =>
                  (\E r \in 1 .. (k - 1) : log[i][r].op = "return")

TeardownAfterReturnWitness ==
  /\ pc[1] = "done"
  /\ branch[1] = {"begin"}
  /\ session[1] = "destroyed"
  /\ "end" \notin Ops(1)

\* C7: once the continuation that received the body reader has returned, no
\* operation through a retained pointer to the reader goes through silently.
ReaderUnusableAfterReturn ==
  \A i \in Inv :
    (pc[i] = "done" /\ retained[i]) => (staleUse[i] # "silent")

\* C8: on a reader with declared length L >= 0 the counts returned by
\* readBytes sum to at most L, bytesLeft is what is left of L, and a
\* readBytes called after L bytes were returned returns 0.
ReadsBounded ==
  \A i \in Inv :
    (reader[i] = "live" /\ declared[i] >= 0) =>
      /\ sumRead[i] <= declared[i]
      /\ bytesLeft[i] = declared[i] - sumRead[i]
      /\ (lastOp[i].op = "readBytes"
            /\ sumRead[i] - lastOp[i].ret = declared[i]) =>
           (lastOp[i].ret = 0)

ReadsBoundedWitness ==
  /\ declared[1] = 10
  /\ sumRead[1] = 10
  /\ nOps[1] = 4
  /\ buffered[1] > 0
  /\ lastOp[1].op = "readBytes"
  /\ lastOp[1].len = 4
  /\ lastOp[1].ret = 0

\* C9 as stated: readBytes with bytesLeft = 0 returns 0 and does not touch
\* the connection; otherwise it asks the connection for at most
\* min(bytesLeft, length) bytes, decreases bytesLeft by the count the
\* connection returned and returns that count.
ReadContract ==
  \A i \in Inv :
    (lastOp[i].op = "readBytes") =>
      IF lastOp[i].before = 0
        THEN /\ lastOp[i].ret = 0
             /\ lastOp[i].asked = -1
             /\ bytesLeft[i] = 0
        ELSE /\ lastOp[i].asked >= 0
             /\ lastOp[i].asked <= Min(lastOp[i].before, lastOp[i].len)
             /\ lastOp[i].ret <= lastOp[i].asked
             /\ bytesLeft[i] = lastOp[i].before - lastOp[i].ret

\* C9 amended: readBytes with bytesLeft = 0 returns 0 and does not touch the
\* connection; with bytesLeft > 0 it asks the connection for
\* min(bytesLeft, length) bytes, decreases bytesLeft by the count the
\* connection returned and returns that count; with bytesLeft < 0 it asks
\* for length bytes, returns the count and leaves bytesLeft unchanged.
ReadContractSigned ==
  \A i \in Inv :
    (lastOp[i].op = "readBytes") =>
      CASE lastOp[i].before = 0 ->
             /\ lastOp[i].ret = 0
             /\ lastOp[i].asked = -1
             /\ bytesLeft[i] = 0
        [] lastOp[i].before > 0 ->
             /\ lastOp[i].asked = Min(lastOp[i].before, lastOp[i].len)
             /\ lastOp[i].ret \in 0 .. lastOp[i].asked
             /\ bytesLeft[i] = lastOp[i].before - lastOp[i].ret
        [] lastOp[i].before < 0 ->
             /\ lastOp[i].asked = lastOp[i].len
             /\ lastOp[i].ret \in 0 .. lastOp[i].asked
             /\ bytesLeft[i] = lastOp[i].before

ReadContractSignedWitness ==
  /\ lastOp[1].op = "readBytes"
  /\ lastOp[1].before = -1
  /\ lastOp[1].ret > 0
  /\ bytesLeft[1] = -1

\* C10: available() returns 0 when the connection is disconnected and
\* bytesLeft otherwise, so 0 on an open connection once bytesLeft is 0; it
\* changes nothing and does not touch the connection.
AvailableContract ==
  \A i \in Inv :
    (lastOp[i].op = "available") =>
      /\ ~lastOp[i].conn => (lastOp[i].ret = 0)
      /\ lastOp[i].conn => (lastOp[i].ret = lastOp[i].before)
      /\ (lastOp[i].conn /\ lastOp[i].before = 0) => (lastOp[i].ret = 0)
      /\ bytesLeft[i] = lastOp[i].before
      /\ lastOp[i].asked = -1

AvailableContractWitness ==
  /\ lastOp[1].op = "available"
  /\ lastOp[1].conn
  /\ declared[1] > 0
  /\ sumRead[1] = declared[1]
  /\ lastOp[1].before = 0
  /\ lastOp[1].ret = 0

\* C11: onClockSet(true) is called on the first poll tick that observes a
\* time >= 57600 and on no other: never after a tick that observed less,
\* never twice, and always on a tick that observed at least the threshold.
FirstTickAtThreshold ==
  \A i \in Inv :
    LET obs == observed[i]
        fired == {k \in 1 .. Len(clockSet[i]) : clockSet[i][k]}
    IN /\ Cardinality(fired) <= 1
       /\ (fired # {}) =>
            /\ Len(obs) > 0
            /\ obs[Len(obs)] >= 57600
            /\ \A k \in 1 .. (Len(obs) - 1) : obs[k] < 57600
       /\ (\E k \in 1 .. Len(obs) : obs[k] >= 57600) => (fired # {})

FirstTickAtThresholdWitness ==
  /\ observed[1] = <<0, 600000>>
  /\ clockSet[1] = <<TRUE>>

\* C12: one clock synchronisation calls onClockSet at most once, with true
\* or with false, and once it has called it the registration is out of the
\* loop, so that the other continuation cannot follow.
ClockOutcomesExclusive ==
  \A i \in Inv :
    /\ Len(clockSet[i]) <= 1
    /\ (clockSet[i] # <<>>) => ~polling[i]

ClockOutcomesExclusiveWitness ==
  /\ clockSet[1] = <<TRUE>>
  /\ pc[1] = "done"
  /\ ~polling[1]

\* C13: an invocation that has been started reaches a call of onResponse.
EventuallyDelivered == (pc[1] = "awaitConnect") ~> (respCount[1] = 1)

EventuallyDeliveredWitness ==
  /\ respCount[1] = 1
  /\ branch[1] = {"clock"}
  /\ Len(observed[1]) > 0
  /\ pc[1] = "inCallback"

\* C16: the token passed to http.sendRequest is the upper-case name of the
\* request's method, and "GET" for a value that is none of the enumerators.
WireTokens ==
  {<<"HTTP_GET", "GET">>, <<"HTTP_HEAD", "HEAD">>, <<"HTTP_POST", "POST">>,
   <<"HTTP_PUT", "PUT">>, <<"HTTP_PATCH", "PATCH">>,
   <<"HTTP_DELETE", "DELETE">>, <<"HTTP_OPTIONS", "OPTIONS">>}

MethodTokensExact ==
  \A i \in Inv : \A k \in 1 .. Len(log[i]) :
    (log[i][k].op = "sendRequest") =>
      /\ \A p \in WireTokens :
           (request[i].method = p[1]) => (log[i][k].arg = p[2])
      /\ (request[i].method \notin Methods) => (log[i][k].arg = "GET")

MethodTokensExactWitness ==
  /\ request[1].method = OtherMethod
  /\ \E k \in 1 .. Len(log[1]) : log[1][k] = Ev("sendRequest", "GET")

\* C18: after a successful begin the calls that follow it are one addHeader
\* for each header of the request, in the request's order, and then the one
\* call of http.sendRequest; no addHeader comes after it.
HeadersInOrder ==
  \A i \in Inv :
    ("sendRequest" \in Ops(i)) =>
      LET hs == request[i].headers
          b == CHOOSE k \in 1 .. Len(log[i]) : log[i][k].op = "begin"
      IN /\ Count(i, "begin") = 1
         /\ Count(i, "sendRequest") = 1
         /\ Count(i, "addHeader") = Len(hs)
         /\ \A j \in 1 .. Len(hs) : log[i][b + j] = Ev("addHeader", hs[j])
         /\ log[i][b + Len(hs) + 1].op = "sendRequest"

HeadersInOrderWitness ==
  /\ request[1].headers = <<"Accept", "Host", "Host">>
  /\ Count(1, "addHeader") = 3
  /\ "sendRequest" \in Ops(1)

\* C14 as stated: on the branch where http.sendRequest returned a code > 0
\* the Response has no error, that code as statusCode and the invocation's
\* reader as body; the reader starts with bytesLeft equal to the declared
\* size, and readBytes returns the declared number of bytes in all and 0
\* after them.
SuccessResponseAnySize ==
  \A i \in Inv :
    (pc[i] = "inCallback" /\ branch[i] = {"body"}) =>
      /\ httpCode[i] > 0
      /\ resp[i] = Response(NULL, httpCode[i], BodyOf(i))
      /\ reader[i] = "live"
      /\ (nOps[i] = 0) => (bytesLeft[i] = declared[i])
      /\ (sumRead[i] > 0) => (sumRead[i] <= declared[i])
      /\ (bytesLeft[i] = 0) => (sumRead[i] = declared[i])
      /\ (lastOp[i].op = "readBytes" /\ lastOp[i].before = 0) =>
           (lastOp[i].ret = 0)

\* C14 amended: as above for a declared size >= 0; with a declared size < 0
\* bytesLeft keeps that size and bounds nothing.
SuccessResponse ==
  \A i \in Inv :
    (pc[i] = "inCallback" /\ branch[i] = {"body"}) =>
      /\ httpCode[i] > 0
      /\ resp[i] = Response(NULL, httpCode[i], BodyOf(i))
      /\ reader[i] = "live"
      /\ (nOps[i] = 0) => (bytesLeft[i] = declared[i])
      /\ (declared[i] >= 0) =>
           /\ sumRead[i] <= declared[i]
           /\ (bytesLeft[i] = 0) => (sumRead[i] = declared[i])
           /\ (lastOp[i].op = "readBytes" /\ lastOp[i].before = 0) =>
                (lastOp[i].ret = 0)
      /\ (declared[i] < 0) => (bytesLeft[i] = declared[i])

SuccessResponseWitness ==
  /\ pc[1] = "inCallback"
  /\ branch[1] = {"body"}
  /\ resp[1].statusCode = 200
  /\ declared[1] > 0
  /\ sumRead[1] = declared[1]
  /\ lastOp[1].op = "readBytes"
  /\ lastOp[1].before = 0
  /\ lastOp[1].ret = 0

\* C15: on the branch where http.sendRequest returned a code <= 0 the
\* Response has that code as statusCode, the engine's text for it as error
\* and no body, and no reader was constructed.
ErrorResponse ==
  \A i \in Inv :
    (branch[i] = {"code"}) =>
      /\ httpCode[i] <= 0
      /\ resp[i].statusCode = httpCode[i]
      /\ resp[i].error = errorToString(httpCode[i])
      /\ resp[i].error # NULL
      /\ resp[i].body = NoBody
      /\ reader[i] = "none"
      /\ "getSize" \notin Ops(i)

ErrorResponseWitness ==
  /\ branch[1] = {"code"}
  /\ httpCode[1] = -2
  /\ resp[1] = Response("send header failed", -2, NoBody)

\* C17: with two invocations in flight each calls its onResponse at most
\* once, exactly once when its continuation has run, with the outcome of its
\* own request; no engine instance is called on by two invocations and a
\* Response carries the reader of its own invocation only.
ConcurrentIndependent ==
  /\ \A e \in Inv : engineUsers[e] \subseteq {e}
  /\ \A i \in Inv :
       /\ respCount[i] <= 1
       /\ (pc[i] \in {"inCallback", "done"}) => (respCount[i] = 1)
       /\ resp[i].body \subseteq {i}
       /\ (branch[i] = {"wifi"}) =>
            (wifiStatus[i] # WL_CONNECTED /\ resp[i].error = ErrWifi)
       /\ (branch[i] = {"clock"}) =>
            (clockSet[i] = <<FALSE>> /\ resp[i].error = ErrClock)
       /\ (branch[i] \in {{"body"}, {"code"}}) =>
            /\ resp[i].statusCode = httpCode[i]
            /\ \E k \in 1 .. Len(log[i]) :
                 log[i][k] = Ev("sendRequest", readMethod(RequestOf(i).method))
            /\ Count(i, "addHeader") = Len(RequestOf(i).headers)

ConcurrentIndependentWitness ==
  /\ pc[1] = "inCallback"
  /\ branch[1] = {"body"}
  /\ pc[2] = "done"
  /\ branch[2] = {"code"}
  /\ engineUsers = <<{1}, {2}>>
  /\ Len(observed[1]) > 1
  /\ Len(observed[2]) > 1

\* C19: a step of read() or peek() goes to the connection whatever bytesLeft
\* is and leaves bytesLeft as it was; it returns a byte when one is buffered;
\* read() takes that byte off the connection and peek() takes nothing.
SingleBytePassThrough ==
  [][\A i \in Inv :
       (nOps'[i] = nOps[i] + 1 /\ lastOp'[i].op \in {"read", "peek"}) =>
         /\ lastOp'[i].asked = 1
         /\ lastOp'[i].ret = (IF buffered[i] > 0 THEN 1 ELSE -1)
         /\ bytesLeft'[i] = bytesLeft[i]
         /\ (lastOp'[i].op = "peek") => (buffered'[i] = buffered[i])
         /\ (lastOp'[i].op = "read") =>
              (buffered'[i] = IF buffered[i] > 0 THEN buffered[i] - 1 ELSE 0)
    ]_vars

SingleBytePassThroughWitness ==
  /\ lastOp[1].op = "read"
  /\ declared[1] > 0
  /\ lastOp[1].before = 0
  /\ bytesLeft[1] = 0
  /\ lastOp[1].ret = 1

\* C20: with a declared size < 0 bytesLeft starts at that size and stays
\* there, never 0, and readBytes asks the connection for its whole length
\* argument; with a declared size >= 0 bytesLeft stays within 0 .. size; and
\* no step increases bytesLeft.
RemainingRange ==
  /\ [](\A i \in Inv :
          (reader[i] = "live") =>
            /\ (declared[i] < 0) =>
                 /\ bytesLeft[i] = declared[i]
                 /\ bytesLeft[i] # 0
                 /\ (lastOp[i].op = "readBytes") =>
                      /\ lastOp[i].asked = lastOp[i].len
                      /\ lastOp[i].ret \in 0 .. lastOp[i].len
            /\ (declared[i] >= 0) => (bytesLeft[i] \in 0 .. declared[i]))
  /\ [][\A i \in Inv :
          (reader[i] = "live" /\ reader'[i] = "live") =>
            (bytesLeft'[i] <= bytesLeft[i])]_vars

RemainingRangeWitness ==
  /\ declared[1] < 0
  /\ bytesLeft[1] = declared[1]
  /\ nOps[1] >= 2
  /\ sumRead[1] > 0
  /\ lastOp[1].op = "readBytes"
  /\ lastOp[1].asked = lastOp[1].len

====
